---- MODULE Spec2Model ----
(***************************************************************************)
(* Model of modest-sql/engine, src/main.go.                                *)
(*                                                                         *)
(* The file holds two iterations of the server.  The later one (lines      *)
(* 178-474) keeps a DBManager with two sync.Maps, `databases` (name ->     *)
(* *data.Database) and `paired` (session id -> *data.Database).  The       *)
(* earlier one (lines 1-176) keeps one package-level `database` pointer.   *)
(* Every request is handled by its own goroutine (main.go:445-452), so a   *)
(* handler is a task whose steps are its accesses to shared state; each    *)
(* sync.Map Load/Store/Delete is one atomic step.                          *)
(*                                                                         *)
(* The packages network, parser, data and transaction are imported, not    *)
(* part of src/: the transport and the storage engine are nondeterministic *)
(* collaborators, the parser is a table, and the Transaction Manager is    *)
(* modelled from the specification (section 4.4).                          *)
(***************************************************************************)
EXTENDS Integers, Sequences, FiniteSets, TLC

VARIABLES
    mainPc,       \* position of main(): "boot", "serving" or "exited"
    files,        \* database files present under settings.Root
    databases,    \* DBManager.databases: name -> handle
    paired,       \* DBManager.paired: session id -> handle
    nextHandle,   \* number of *data.Database values allocated so far
    tasks,        \* one record per request taken from server.RequestQueue
    sent,         \* sent[r]: responses server.Send was given because of request r
    closed,       \* sessions whose connection has closed
    queue,        \* Transaction Manager: admitted batches not yet finished
    tmPos,        \* Transaction Manager: next command of the head batch
    executed,     \* history: commands in the order the manager ran them, each with its
                  \* outcome and whether its session was still paired then
    admitted,     \* history: requests in the order AddCommands admitted them
    okUnpairs,    \* history: per session, unpair calls that returned nil since its last paired.Store
    dropHandled,  \* history: names a drop-database request was handled for
    database,     \* earlier iteration: package-level `database`
    databaseName, \* earlier iteration: package-level `databaseName`
    acceptorPc,   \* position of main()'s accept loop: "check", "accept", "failed" or "join"
    joined,       \* number of connections server.Join has registered (session ids 1..joined)
    conn          \* the connection value listener.Accept last returned

vars == <<mainPc, files, databases, paired, nextHandle, tasks, sent, closed,
          queue, tmPos, executed, admitted, okUnpairs, dropHandled,
          database, databaseName, acceptorPc, joined, conn>>

\* the state of the accept loop, main.go:460-472
acceptorVars == <<acceptorPc, joined, conn>>

----------------------------------------------------------------------------
(* Bounds *)

MaxRequests == 2
MaxHandles == 3

\* session ids the transport has assigned
Sessions == {1, 2}
Names == {"a", "b"}
\* ioutil.ReadDir returns the directory sorted by file name
NameOrder == <<"a", "b">>
InitialFiles == {"a"}
Nil == 0
Handles == 1..MaxHandles

----------------------------------------------------------------------------
(* Messages *)

ErrNotLoaded == "Error pairing, Database isn't loaded or doesnt exist"
ErrNotFound == "Database specified wasn't found"
ErrNoActive == "No active database selected"
ErrStorage == "storage error"
ErrParse == "parse error"
ErrExec == "execution error"
ErrRemove == "remove: no such file or directory"

Response(to, type, data, names) ==
    [to |-> to, type |-> type, data |-> data, names |-> names]

----------------------------------------------------------------------------
(* sync.Map *)

Load(m, k) == IF k \in DOMAIN m THEN m[k] ELSE Nil
Has(m, k) == k \in DOMAIN m
Store(m, k, v) == [x \in DOMAIN m \cup {k} |-> IF x = k THEN v ELSE m[x]]
Delete(m, k) == [x \in DOMAIN m \ {k} |-> m[x]]
EmptyMap == [x \in {} |-> Nil]

----------------------------------------------------------------------------
(* Parser (imported): query text -> commands or an error *)

QueryTexts == {"INSERT;bad", "ALTER", "CREATE;INSERT"}

\* parser.Parse(reader): (commands, err); with an error the commands are
\* whatever the parser had read before it
Parse(text) ==
    CASE text = "ALTER" -> [err |-> FALSE, commands |-> <<"AlterTable">>]
      [] text = "CREATE;INSERT" -> [err |-> FALSE, commands |-> <<"CreateTable", "Insert">>]
      [] text = "INSERT;bad" -> [err |-> TRUE, commands |-> <<"Insert">>]
      [] OTHER -> [err |-> TRUE, commands |-> <<>>]

----------------------------------------------------------------------------
(* Continuation binder, main.go:346-402 (earlier iteration: 88-124) *)

\* earlier iteration, lines 90-122: only create-table, insert and select have
\* a body; the other cases leave `function` nil
BindFunctionLegacy(kind) ==
    CASE kind = "CreateTable" -> "legacyCreateTable"
      [] kind = "Insert" -> "legacyInsert"
      [] kind = "SelectTable" -> "legacySelect"
      [] OTHER -> "nil"

\* earlier iteration, lines 93-121
ContinuationLegacy(fn, sid, ok) ==
    IF ~ok THEN <<Response(sid, "Error", ErrExec, {})>>
    ELSE CASE fn = "legacyCreateTable" -> <<Response(sid, "Notification", "Table Created <name>", {})>>
           [] fn = "legacyInsert" -> <<Response(sid, "Notification", "Data Inserted", {})>>
           [] fn = "legacySelect" -> <<Response(sid, "Query", "rows", {})>>


\* the switch on command.(type): the continuation bound to a command kind;
\* a kind with no case leaves `function` nil
BindFunction(kind) ==
    CASE kind = "CreateTable" -> "createTable"
      [] kind = "Delete" -> "delete"
      [] kind = "Insert" -> "insert"
      [] kind = "UpdateTable" -> "update"
      [] kind = "SelectTable" -> "select"
      [] kind = "Drop" -> "drop"
      [] OTHER -> "nil"

\* what a continuation sends when it is invoked with (result, err),
\* main.go:350-398
Continuation(fn, sid, ok) ==
    IF ~ok THEN <<Response(sid, "Error", ErrExec, {})>>
    ELSE CASE fn = "createTable" -> <<Response(sid, "Notification", "Table Created", {})>>
           [] fn = "delete" -> <<Response(sid, "Notification", "Data Deleted", {})>>
           [] fn = "insert" -> <<Response(sid, "Notification", "Data Inserted", {})>>
           [] fn = "update" -> <<Response(sid, "Notification", "Data Updated", {})>>
           [] fn = "select" -> <<Response(sid, "Query", "rows", {})>>
           [] fn = "drop" -> <<Response(sid, "Notification", "Table Dropped", {})>>

\* mutant: each bound command is put in front of commandsArray
RECURSIVE BindCommandsPrepend(_, _, _, _, _)
BindCommandsPrepend(commands, db, sid, req, idx) ==
    IF commands = <<>> THEN <<>>
    ELSE BindCommandsPrepend(Tail(commands), db, sid, req, idx + 1)
         \o <<[kind |-> Head(commands), db |-> db, sid |-> sid, req |-> req,
               idx |-> idx, fn |-> BindFunction(Head(commands))]>>

\* mutant: the continuations are built on the request last taken from the
\* queue, as if `request` were a variable the goroutines share
RECURSIVE BindCommandsLastRequest(_, _, _, _, _)
BindCommandsLastRequest(commands, db, sid, req, idx) ==
    IF commands = <<>> THEN <<>>
    ELSE <<[kind |-> Head(commands), db |-> db, sid |-> tasks[Len(tasks)].sid,
            req |-> req, idx |-> idx, fn |-> BindFunction(Head(commands))]>>
         \o BindCommandsLastRequest(Tail(commands), db, sid, req, idx + 1)

\* mutant: every turn of the loop looks the session's database up again
\* instead of using databaseTemp
RECURSIVE BindCommandsCurrentPair(_, _, _, _, _)
BindCommandsCurrentPair(commands, db, sid, req, idx) ==
    IF commands = <<>> THEN <<>>
    ELSE <<[kind |-> Head(commands),
            db |-> IF sid \in DOMAIN paired THEN paired[sid] ELSE Nil,
            sid |-> sid, req |-> req, idx |-> idx,
            fn |-> BindFunction(Head(commands))]>>
         \o BindCommandsCurrentPair(Tail(commands), db, sid, req, idx + 1)

\* the loop over commands: commandsArray, in the parser's order
RECURSIVE BindCommands(_, _, _, _, _)
BindCommands(commands, db, sid, req, idx) ==
    IF commands = <<>> THEN <<>>
    ELSE <<[kind |-> Head(commands), db |-> db, sid |-> sid, req |-> req,
            idx |-> idx, fn |-> BindFunction(Head(commands))]>>
         \o BindCommands(Tail(commands), db, sid, req, idx + 1)

----------------------------------------------------------------------------
(* Tasks: one goroutine per request, main.go:445-452 *)

RequestTypes == {"KeepAlive", "NewDatabase", "LoadDatabase", "GetMetadata",
                 "Query", "ShowTransaction", "SessionExited", "DropDb"}

\* the payloads a request of a type carries
RequestData(type) ==
    CASE type \in {"NewDatabase", "LoadDatabase", "DropDb"} -> Names
      [] type = "Query" -> QueryTexts
      [] OTHER -> {""}

\* mutant: the keep-alive case is empty, like the new-table case
FirstStepKeepAliveEmpty(type) ==
    CASE type = "KeepAlive" -> "done"
      [] type = "NewDatabase" -> "newDatabase"
      [] type = "LoadDatabase" -> "pairLoad"
      [] type = "GetMetadata" -> "getMetadata"
      [] type = "Query" -> "getPair"
      [] type = "ShowTransaction" -> "showTransaction"
      [] type = "SessionExited" -> "unpairLoad"
      [] type = "DropDb" -> "deleteDatabase"

\* the case of handleRequest's switch a request type enters, main.go:307-426
FirstStep(type) ==
    CASE type = "KeepAlive" -> "keepAlive"
      [] type = "NewDatabase" -> "newDatabase"
      [] type = "LoadDatabase" -> "pairLoad"
      [] type = "GetMetadata" -> "getMetadata"
      [] type = "Query" -> "getPair"
      [] type = "ShowTransaction" -> "showTransaction"
      [] type = "SessionExited" -> "unpairLoad"
      [] type = "DropDb" -> "deleteDatabase"

NewTask(s, type, data) ==
    [sid |-> s, type |-> type, data |-> data, pc |-> FirstStep(type),
     db |-> Nil, ptr |-> Nil, ret |-> "", afterUnpair |-> FALSE, batch |-> <<>>]

TaskIds == 1..Len(tasks)

At(t, pc) == mainPc = "serving" /\ t \in TaskIds /\ tasks[t].pc = pc

Goto(t, pc) == [tasks EXCEPT ![t].pc = pc]

\* the handler of request t returns; ret is "ok" or the error it met
Return(t, ret) == [tasks EXCEPT ![t].pc = "done", ![t].ret = ret]

Done(t) == tasks[t].pc = "done"

\* server.Send(request.SessionID, response) on behalf of request t
Send(t, resp) == [sent EXCEPT ![t] = Append(@, resp)]

SendAll(t, resps) == [sent EXCEPT ![t] = @ \o resps]

----------------------------------------------------------------------------
(* Startup *)

Init ==
    /\ mainPc = "boot"
    /\ files = InitialFiles
    /\ databases = EmptyMap
    /\ paired = EmptyMap
    /\ nextHandle = 0
    /\ tasks = <<>>
    /\ sent = <<>>
    /\ closed = {}
    /\ queue = <<>>
    /\ tmPos = 1
    /\ executed = <<>>
    /\ admitted = <<>>
    /\ okUnpairs = [s \in Sessions |-> 0]
    /\ dropHandled = {}
    /\ database = Nil
    /\ databaseName = ""
    /\ acceptorPc = "check"
    /\ joined = Cardinality(Sessions)
    /\ conn = Nil

\* the files of the root directory, in ReadDir's order
FileList == SelectSeq(NameOrder, LAMBDA n : n \in files)

\* the registry after the first k files of `list` were loaded, main.go:226-232
RECURSIVE LoadedPrefix(_, _)
LoadedPrefix(list, k) ==
    IF k = 0 THEN EmptyMap
    ELSE Store(LoadedPrefix(list, k - 1), list[k], k)

\* DBManager.loadAllDatabases, called by main before the server starts
\* (main.go:436-440); data.LoadDatabase may fail on any file, and main returns
LoadAllDatabases ==
    /\ mainPc = "boot"
    /\ Len(FileList) <= MaxHandles
    /\ \E k \in 0..Len(FileList) :
         /\ databases' = LoadedPrefix(FileList, k)
         /\ nextHandle' = k
         /\ mainPc' = IF k = Len(FileList) THEN "serving" ELSE "exited"
    /\ UNCHANGED acceptorVars
    /\ UNCHANGED <<files, paired, tasks, sent, closed, queue, tmPos, executed,
                   admitted, okUnpairs, dropHandled, database, databaseName>>

----------------------------------------------------------------------------
(* Transport (imported): requests arrive on server.RequestQueue *)

\* a client message of session s is taken from the queue and given its own
\* goroutine; the message's type tag is the client's choice
Receive(s, type, data) ==
    /\ mainPc = "serving"
    /\ s \notin closed
    /\ Len(tasks) < MaxRequests
    /\ tasks' = Append(tasks, NewTask(s, type, data))
    /\ sent' = Append(sent, <<>>)
    /\ UNCHANGED acceptorVars
    /\ UNCHANGED <<mainPc, files, databases, paired, nextHandle, closed, queue,
                   tmPos, executed, admitted, okUnpairs, dropHandled, database,
                   databaseName>>

\* the connection of session s closes: the transport emits its synthetic
\* session-exited request, and s sends nothing afterwards
ConnectionClosed(s) ==
    /\ mainPc = "serving"
    /\ s \notin closed
    /\ Len(tasks) < MaxRequests
    /\ closed' = closed \cup {s}
    /\ tasks' = Append(tasks, NewTask(s, "SessionExited", ""))
    /\ sent' = Append(sent, <<>>)
    /\ UNCHANGED acceptorVars
    /\ UNCHANGED <<mainPc, files, databases, paired, nextHandle, queue, tmPos,
                   executed, admitted, okUnpairs, dropHandled, database,
                   databaseName>>

----------------------------------------------------------------------------
(* DBManager, main.go:201-273 *)

\* mutant: the `if !ok` test of pair is lost
pairLookupAlwaysOk(name) == [ok |-> TRUE, ptr |-> Load(databases, name)]

\* pair, line 248: DBM.databases.Load(name)
pairLookup(name) == [ok |-> Has(databases, name), ptr |-> Load(databases, name)]

\* pair, line 252: DBM.paired.Store(sessionID, databasePointer)
pairBind(sessionID, databasePointer) == Store(paired, sessionID, databasePointer)

\* createDatabase, line 242: DBM.databases.Store(name, db)
createRegister(name, db) == Store(databases, name, db)

\* unpair, line 258: DBM.paired.Load(sessionID)
unpairLookup(sessionID) == Has(paired, sessionID)

\* mutant: unpair returns nil without deleting
unpairRemoveNothing(sessionID) == paired

\* unpair, line 260: DBM.paired.Delete(sessionID)
unpairRemove(sessionID) == Delete(paired, sessionID)

\* getPair, lines 268-272
getPair(sessionID) ==
    IF Has(paired, sessionID)
    THEN [ok |-> TRUE, ptr |-> Load(paired, sessionID), err |-> ""]
    ELSE [ok |-> FALSE, ptr |-> Nil, err |-> ErrNoActive]

\* getMetadata, lines 212-216: the names the Range visits
getMetadata == DOMAIN databases

----------------------------------------------------------------------------
(* handleRequest, main.go:306-428, one action per step of a task *)

\* case network.KeepAlive
KeepAlive(t) ==
    /\ At(t, "keepAlive")
    /\ sent' = Send(t, Response(tasks[t].sid, "KeepAlive", "Alive", {}))
    /\ tasks' = Return(t, "ok")
    /\ UNCHANGED acceptorVars
    /\ UNCHANGED <<mainPc, files, databases, paired, nextHandle, closed, queue,
                   tmPos, executed, admitted, okUnpairs, dropHandled, database,
                   databaseName>>

\* case network.NewDatabase, createDatabase line 238: data.NewDatabase creates
\* the file and returns a new handle, or fails (the error goes to the client)
CreateNew(t) ==
    /\ At(t, "newDatabase")
    /\ \/ /\ nextHandle < MaxHandles
          /\ nextHandle' = nextHandle + 1
          /\ files' = files \cup {tasks[t].data}
          /\ tasks' = [tasks EXCEPT ![t].db = nextHandle + 1, ![t].pc = "createStore"]
          /\ UNCHANGED sent
       \/ /\ sent' = Send(t, Response(tasks[t].sid, "Error", ErrStorage, {}))
          /\ tasks' = Return(t, ErrStorage)
          /\ UNCHANGED <<nextHandle, files>>
    /\ UNCHANGED acceptorVars
    /\ UNCHANGED <<mainPc, databases, paired, closed, queue, tmPos, executed,
                   admitted, okUnpairs, dropHandled, database, databaseName>>

\* createDatabase line 242, then the call of pair
CreateStore(t) ==
    /\ At(t, "createStore")
    /\ databases' = createRegister(tasks[t].data, tasks[t].db)
    /\ tasks' = Goto(t, "pairLoad")
    /\ UNCHANGED acceptorVars
    /\ UNCHANGED <<mainPc, files, paired, nextHandle, sent, closed, queue, tmPos,
                   executed, admitted, okUnpairs, dropHandled, database,
                   databaseName>>

\* pair lines 248-251, called for load-database and by createDatabase; the
\* error is sent by handleRequest (lines 312-314, 318-320)
PairLoad(t) ==
    /\ At(t, "pairLoad")
    /\ LET r == pairLookup(tasks[t].data) IN
         IF r.ok
         THEN /\ tasks' = [tasks EXCEPT ![t].ptr = r.ptr, ![t].pc = "pairStore"]
              /\ UNCHANGED sent
         ELSE /\ sent' = Send(t, Response(tasks[t].sid, "Error", ErrNotLoaded, {}))
              /\ tasks' = Return(t, ErrNotLoaded)
    /\ UNCHANGED acceptorVars
    /\ UNCHANGED <<mainPc, files, databases, paired, nextHandle, closed, queue,
                   tmPos, executed, admitted, okUnpairs, dropHandled, database,
                   databaseName>>

\* pair lines 252-253
PairStore(t) ==
    /\ At(t, "pairStore")
    /\ paired' = pairBind(tasks[t].sid, tasks[t].ptr)
    /\ okUnpairs' = [okUnpairs EXCEPT ![tasks[t].sid] = 0]
    /\ tasks' = Return(t, "ok")
    /\ UNCHANGED acceptorVars
    /\ UNCHANGED <<mainPc, files, databases, nextHandle, sent, closed, queue,
                   tmPos, executed, admitted, dropHandled, database, databaseName>>

\* case network.SessionExited, unpair lines 258-259 and 263; the error is
\* printed, nothing is sent
UnpairLoad(t) ==
    /\ At(t, "unpairLoad")
    /\ tasks' = IF unpairLookup(tasks[t].sid)
                THEN Goto(t, "unpairDelete")
                ELSE Return(t, ErrNotFound)
    /\ UNCHANGED acceptorVars
    /\ UNCHANGED <<mainPc, files, databases, paired, nextHandle, sent, closed,
                   queue, tmPos, executed, admitted, okUnpairs, dropHandled,
                   database, databaseName>>

\* mutant: the session-exited case also withdraws the session's batches
exitQueueCancel(sessionID) ==
    SelectSeq(queue, LAMBDA b : b[1].sid # sessionID)

\* case network.SessionExited, lines 414-419: the case calls unpair and
\* nothing of package transaction; the manager's queue as it leaves it
exitQueue(sessionID) == queue

\* unpair lines 260-261, and the return of the session-exited case
UnpairDelete(t) ==
    /\ At(t, "unpairDelete")
    /\ paired' = unpairRemove(tasks[t].sid)
    /\ queue' = exitQueue(tasks[t].sid)
    /\ okUnpairs' = [okUnpairs EXCEPT ![tasks[t].sid] = @ + 1]
    /\ tasks' = Return(t, "ok")
    /\ UNCHANGED acceptorVars
    /\ UNCHANGED <<mainPc, files, databases, nextHandle, sent, closed,
                   tmPos, executed, admitted, dropHandled, database, databaseName>>

\* case network.GetMetadata
GetMetadata(t) ==
    /\ At(t, "getMetadata")
    /\ sent' = Send(t, Response(tasks[t].sid, "GetMetadata", "{Databases:}", getMetadata))
    /\ tasks' = Return(t, "ok")
    /\ UNCHANGED acceptorVars
    /\ UNCHANGED <<mainPc, files, databases, paired, nextHandle, closed, queue,
                   tmPos, executed, admitted, okUnpairs, dropHandled, database,
                   databaseName>>

\* case network.Query, lines 332-336
QueryGetPair(t) ==
    /\ At(t, "getPair")
    /\ LET r == getPair(tasks[t].sid) IN
         IF r.ok
         THEN /\ tasks' = [tasks EXCEPT ![t].ptr = r.ptr, ![t].pc = "compile",
                                         ![t].afterUnpair = okUnpairs[tasks[t].sid] > 0]
              /\ UNCHANGED sent
         ELSE /\ sent' = Send(t, Response(tasks[t].sid, "Error", r.err, {}))
              /\ tasks' = [tasks EXCEPT ![t].pc = "done", ![t].ret = r.err,
                                         ![t].afterUnpair = okUnpairs[tasks[t].sid] > 0]
    /\ UNCHANGED acceptorVars
    /\ UNCHANGED <<mainPc, files, databases, paired, nextHandle, closed, queue,
                   tmPos, executed, admitted, okUnpairs, dropHandled, database,
                   databaseName>>

\* mutant: the error of parser.Parse is not tested
parseFailedNever(parsed) == FALSE

\* line 339: err != nil
parseFailed(parsed) == parsed.err

\* case network.Query, lines 337-404: parse, bind every command, then one
\* transaction.AddCommands for the whole batch
QuerySubmit(t) ==
    /\ At(t, "compile")
    /\ LET parsed == Parse(tasks[t].data) IN
         IF parseFailed(parsed)
         THEN /\ sent' = Send(t, Response(tasks[t].sid, "Error", ErrParse, {}))
              /\ tasks' = Return(t, ErrParse)
              /\ UNCHANGED <<queue, admitted>>
         ELSE /\ queue' = Append(queue, BindCommands(parsed.commands, tasks[t].ptr,
                                                     tasks[t].sid, t, 1))
              /\ admitted' = Append(admitted, t)
              /\ tasks' = Return(t, "ok")
              /\ UNCHANGED sent
    /\ UNCHANGED acceptorVars
    /\ UNCHANGED <<mainPc, files, databases, paired, nextHandle, closed, tmPos,
                   executed, okUnpairs, dropHandled, database, databaseName>>

\* case network.ShowTransaction
ShowTransaction(t) ==
    /\ At(t, "showTransaction")
    /\ sent' = Send(t, Response(tasks[t].sid, "ShowTransaction", "{Transactions:}", {}))
    /\ tasks' = Return(t, "ok")
    /\ UNCHANGED acceptorVars
    /\ UNCHANGED <<mainPc, files, databases, paired, nextHandle, closed, queue,
                   tmPos, executed, admitted, okUnpairs, dropHandled, database,
                   databaseName>>

\* deleteDatabase, lines 280-283: os.Remove of the database file
deleteDatabase(name) == files \ {name}

\* case network.DropDb, lines 420-425: the error of os.Remove is printed
DropDb(t) ==
    /\ At(t, "deleteDatabase")
    /\ files' = deleteDatabase(tasks[t].data)
    /\ dropHandled' = dropHandled \cup {tasks[t].data}
    /\ tasks' = Return(t, IF tasks[t].data \in files THEN "ok" ELSE ErrRemove)
    /\ UNCHANGED acceptorVars
    /\ UNCHANGED <<mainPc, databases, paired, nextHandle, sent, closed, queue,
                   tmPos, executed, admitted, okUnpairs, database, databaseName>>

----------------------------------------------------------------------------
(* Transaction Manager (package transaction, imported), from section 4.4 of *)
(* the specification: one execution task, batches in FIFO order, the        *)
(* commands of a batch in order, each followed by its continuation          *)

\* the batch the manager runs next
tmNextBatch == Head(queue)

\* the continuation of either iteration
Invoke(fn, sid, ok) ==
    IF fn \in {"legacyCreateTable", "legacyInsert", "legacySelect"}
    THEN ContinuationLegacy(fn, sid, ok)
    ELSE Continuation(fn, sid, ok)

\* the manager runs one command (the storage engine succeeds or fails) and
\* invokes its continuation with the outcome; a command built on a nil
\* *data.Database panics, which ends the process, and so does the call of a
\* continuation that is a nil func value
TMExecute ==
    /\ mainPc = "serving"
    /\ queue # <<>>
    /\ LET c == tmNextBatch[tmPos] IN
         IF c.db = Nil
         THEN /\ mainPc' = "exited"
              /\ UNCHANGED <<executed, sent, queue, tmPos>>
         ELSE IF c.fn = "nil"
         THEN /\ \E ok \in BOOLEAN :
                   executed' = Append(executed, [req |-> c.req, idx |-> c.idx,
                                                 kind |-> c.kind, db |-> c.db,
                                                 bound |-> Has(paired, c.sid),
                                                 ok |-> ok])
              /\ mainPc' = "exited"
              /\ UNCHANGED <<sent, queue, tmPos>>
         ELSE /\ \E ok \in BOOLEAN :
                   /\ executed' = Append(executed, [req |-> c.req, idx |-> c.idx,
                                                    kind |-> c.kind, db |-> c.db,
                                                    bound |-> Has(paired, c.sid),
                                                    ok |-> ok])
                   /\ sent' = SendAll(c.req, Invoke(c.fn, c.sid, ok))
              /\ IF tmPos = Len(tmNextBatch)
                 THEN queue' = Tail(queue) /\ tmPos' = 1
                 ELSE tmPos' = tmPos + 1 /\ UNCHANGED queue
              /\ UNCHANGED mainPc
    /\ UNCHANGED acceptorVars
    /\ UNCHANGED <<files, databases, paired, nextHandle, tasks, closed,
                   admitted, okUnpairs, dropHandled, database, databaseName>>

----------------------------------------------------------------------------

\* The registry from startup: the requests that read or write DBM.databases,
\* write DBM.paired or delete a database file.  Queries and the Transaction
\* Manager are the subject of SpecPaired.
RegistryTypes == {"NewDatabase", "LoadDatabase", "GetMetadata",
                  "SessionExited", "DropDb"}

Step(t) ==
    \/ CreateNew(t)
    \/ CreateStore(t)
    \/ PairLoad(t)
    \/ PairStore(t)
    \/ UnpairLoad(t)
    \/ UnpairDelete(t)
    \/ GetMetadata(t)
    \/ DropDb(t)

Next ==
    \/ LoadAllDatabases
    \/ \E s \in Sessions, type \in RegistryTypes : \E data \in RequestData(type) :
         Receive(s, type, data)
    \/ \E s \in Sessions : ConnectionClosed(s)
    \/ \E t \in 1..MaxRequests : Step(t)

Spec == Init /\ [][Next]_vars

----------------------------------------------------------------------------
(* Properties of the DBManager iteration *)

\* task t has just taken the step it was waiting at `pc` for
Stepped(t, pc) == t \in TaskIds /\ tasks[t].pc = pc /\ tasks'[t].pc # pc

\* the handle getPair returns for session s (Nil with its error): the one a
\* query of s is compiled against
BoundTo(s) == getPair(s).ptr

\* C2: pair(S, name) succeeds exactly when its lookup finds a handle registered
\* under name, and then binds S to the handle it found; otherwise it returns
\* the not-loaded error and leaves the bindings alone.  The binding of S then
\* changes only by a pair or an unpair of S.
PairContract ==
    [][/\ \A t \in TaskIds :
            Stepped(t, "pairLoad") =>
                /\ paired' = paired
                /\ IF tasks[t].data \in DOMAIN databases
                   THEN /\ tasks'[t].pc = "pairStore"
                        /\ tasks'[t].ptr = databases[tasks[t].data]
                        /\ sent'[t] = sent[t]
                   ELSE /\ tasks'[t].pc = "done"
                        /\ tasks'[t].ret = ErrNotLoaded
       /\ \A t \in TaskIds :
            Stepped(t, "pairStore") =>
                /\ tasks[t].ptr # Nil
                /\ tasks'[t].ret = "ok"
                /\ BoundTo(tasks[t].sid)' = tasks[t].ptr
       /\ \A s \in Sessions :
            BoundTo(s)' # BoundTo(s) =>
                \E t \in TaskIds :
                    /\ tasks[t].sid = s
                    /\ Stepped(t, "pairStore") \/ Stepped(t, "unpairDelete")
      ]_vars

\* C2 witness: a load-database request has bound its session, and another one
\* has been refused
PairContractWitness ==
    \E t, u \in TaskIds :
        /\ tasks[t].type = "LoadDatabase" /\ tasks[t].ret = "ok"
        /\ BoundTo(tasks[t].sid) = tasks[t].ptr
        /\ tasks[u].type = "LoadDatabase" /\ tasks[u].ret = ErrNotLoaded

\* C3: while an unpair of S has returned ok and no pair of S has followed, S
\* has no binding, and a query of S that looks its database up then is
\* answered with the no-active-database error and admits nothing.
UnpairedHasNoDatabase ==
    /\ \A s \in Sessions : okUnpairs[s] > 0 => ~Has(paired, s)
    /\ \A t \in TaskIds :
         (tasks[t].type = "Query" /\ tasks[t].afterUnpair) =>
             /\ Done(t)
             /\ tasks[t].ret = ErrNoActive
             /\ sent[t] = <<Response(tasks[t].sid, "Error", ErrNoActive, {})>>
             /\ \A i \in 1..Len(admitted) : admitted[i] # t

\* C3 witness: a query was answered so after its session's unpair
UnpairedHasNoDatabaseWitness ==
    \E t, u \in TaskIds :
        /\ tasks[u].type = "SessionExited" /\ tasks[u].ret = "ok"
        /\ tasks[t].sid = tasks[u].sid
        /\ tasks[t].type = "Query" /\ tasks[t].afterUnpair /\ Done(t)

\* C4: of the unpair calls on a bound session with no pair in between, exactly
\* one returns ok
OneUnpairSucceeds ==
    \A s \in Sessions : okUnpairs[s] <= 1

\* C5: a createDatabase that succeeds leaves the name registered and the
\* session paired to the handle it created, and every later getMetadata lists
\* the name; one that fails changes neither map and reports the error
CreateDatabaseContract ==
    [][\A t \in TaskIds :
          /\ (tasks[t].type = "NewDatabase" /\ Stepped(t, "pairStore")) =>
                /\ tasks'[t].ret = "ok"
                /\ tasks[t].data \in DOMAIN databases'
                /\ BoundTo(tasks[t].sid)' = tasks[t].db
          /\ (Stepped(t, "newDatabase") /\ tasks'[t].pc = "done") =>
                /\ tasks'[t].ret = ErrStorage
                /\ databases' = databases
                /\ paired' = paired
                /\ sent'[t] = <<Response(tasks[t].sid, "Error", ErrStorage, {})>>
          /\ Stepped(t, "getMetadata") =>
                \A u \in TaskIds :
                    (tasks[u].type = "NewDatabase" /\ tasks[u].ret = "ok") =>
                        tasks[u].data \in sent'[t][1].names
      ]_vars

\* C6: a registered name keeps its handle until a drop-database request for
\* that name is handled
RegisteredHandlePersists ==
    [][\A n \in DOMAIN databases :
          n \notin dropHandled' =>
              n \in DOMAIN databases' /\ databases'[n] = databases[n]
      ]_vars

\* C7: no database file is deleted while a live session is paired to the
\* handle registered under its name
DropRefusedWhilePaired ==
    [][\A n \in Names :
          (n \in files /\ n \notin files') =>
              ~\E s \in DOMAIN paired :
                  s \notin closed /\ n \in DOMAIN databases /\ paired[s] = databases[n]
      ]_vars

\* C8: once the session-exited request of a closed session and every request
\* the session sent before it have been handled, the session has no binding
ExitedSessionUnbound ==
    \A s \in closed :
        (\A t \in TaskIds : tasks[t].sid = s => Done(t)) => ~Has(paired, s)

\* the request types whose handling can fail with an error meant for the client
FailingTypes == {"NewDatabase", "LoadDatabase", "Query", "DropDb"}

\* C11: when the handling of a new-database, load-database, query or
\* drop-database request ends with an error, exactly that error has been sent
\* as an Error response to the session of the request, and the step changes
\* neither another session's binding nor the Transaction Manager's queue
FailedRequestAnswered ==
    [][\A t \in TaskIds :
          (/\ tasks[t].type \in FailingTypes
           /\ ~Done(t)
           /\ tasks'[t].pc = "done"
           /\ tasks'[t].ret # "ok") =>
              /\ sent'[t] = <<Response(tasks[t].sid, "Error", tasks'[t].ret, {})>>
              /\ \A s \in Sessions \ {tasks[t].sid} : BoundTo(s)' = BoundTo(s)
              /\ queue' = queue
      ]_vars

----------------------------------------------------------------------------
(* The server started on the database files "a" and "b", after both         *)
(* sessions have loaded database "a": the state two handled load-database   *)
(* requests leave, with their finished tasks dropped                        *)

InitPaired ==
    /\ mainPc = "serving"
    /\ files = Names
    /\ databases = LoadedPrefix(NameOrder, Len(NameOrder))
    /\ paired = [s \in Sessions |-> 1]
    /\ nextHandle = Len(NameOrder)
    /\ tasks = <<>>
    /\ sent = <<>>
    /\ closed = {}
    /\ queue = <<>>
    /\ tmPos = 1
    /\ executed = <<>>
    /\ admitted = <<>>
    /\ okUnpairs = [s \in Sessions |-> 0]
    /\ dropHandled = {}
    /\ database = Nil
    /\ databaseName = ""
    /\ acceptorPc = "check"
    /\ joined = Cardinality(Sessions)
    /\ conn = Nil

\* the requests that reach the Transaction Manager or change a binding
PairedTypes == {"Query", "LoadDatabase", "SessionExited"}

StepPaired(t) ==
    \/ PairLoad(t)
    \/ PairStore(t)
    \/ UnpairLoad(t)
    \/ UnpairDelete(t)
    \/ QueryGetPair(t)
    \/ QuerySubmit(t)

NextPaired ==
    \/ \E s \in Sessions, type \in PairedTypes : \E data \in RequestData(type) :
         Receive(s, type, data)
    \/ \E s \in Sessions : ConnectionClosed(s)
    \/ \E t \in 1..MaxRequests : StepPaired(t)
    \/ TMExecute

SpecPaired == InitPaired /\ [][NextPaired]_vars

\* The same server taking queries and the requests that only read: keep-alive,
\* get-metadata and show-transactions, served beside the manager
ServedTypes == {"Query", "KeepAlive", "GetMetadata", "ShowTransaction"}

StepServed(t) ==
    \/ QueryGetPair(t)
    \/ QuerySubmit(t)
    \/ KeepAlive(t)
    \/ GetMetadata(t)
    \/ ShowTransaction(t)

NextServed ==
    \/ \E s \in Sessions, type \in ServedTypes : \E data \in RequestData(type) :
         Receive(s, type, data)
    \/ \E t \in 1..MaxRequests : StepServed(t)
    \/ TMExecute

SpecServed == InitPaired /\ [][NextServed]_vars

----------------------------------------------------------------------------
(* Properties of the Transaction Manager *)

\* the commands of request r, in the order of its query text
CommandsOf(r) ==
    LET kinds == Parse(tasks[r].data).commands
    IN  [i \in 1..Len(kinds) |-> [req |-> r, idx |-> i, kind |-> kinds[i]]]

\* the commands of the admitted batches, in admission order
RECURSIVE Flatten(_)
Flatten(reqs) ==
    IF reqs = <<>> THEN <<>> ELSE CommandsOf(Head(reqs)) \o Flatten(Tail(reqs))

\* the commands still waiting in the manager's queue
RECURSIVE QueuedCommands(_)
QueuedCommands(q) ==
    IF q = <<>> THEN 0 ELSE Len(Head(q)) + QueuedCommands(Tail(q))

Pending == IF queue = <<>> THEN 0 ELSE QueuedCommands(queue) - (tmPos - 1)

\* C9: the manager runs the batches in the order AddCommands admitted them
\* and the commands of a batch in the order of the query text, one at a time:
\* what it has run is always an initial part of the admitted commands, so a
\* batch admitted earlier is finished before a later one starts
ExecutedInAdmissionOrder ==
    LET expected == Flatten(admitted) IN
        /\ Len(executed) <= Len(expected)
        /\ \A k \in 1..Len(executed) :
              /\ executed[k].req = expected[k].req
              /\ executed[k].idx = expected[k].idx
              /\ executed[k].kind = expected[k].kind

\* C9 witness: two batches of different sessions were both in the queue, and
\* both have been run to the end
ExecutedInAdmissionOrderWitness ==
    /\ Len(admitted) = 2
    /\ tasks[admitted[1]].sid # tasks[admitted[2]].sid
    /\ queue = <<>>
    /\ Len(executed) >= 3
    /\ executed[Len(executed)].req = admitted[2]

\* the entries of the execution log that belong to request r and whose
\* command kind has a case in the binder's switch
BoundRuns(r) ==
    SelectSeq(executed, LAMBDA e : e.req = r /\ BindFunction(e.kind) # "nil")

\* C10: every admitted command is run and its continuation invoked exactly
\* once, a failed command's continuation sends the error, and a failure does
\* not stop the manager: every admitted command is either run or still
\* queued, and the manager can go on whenever something is queued
EveryCommandCompletesOnce ==
    /\ \A i, j \in 1..Len(executed) :
          (executed[i].req = executed[j].req /\ executed[i].idx = executed[j].idx)
              => i = j
    /\ Len(executed) + Pending = Len(Flatten(admitted))
    /\ queue # <<>> => ENABLED TMExecute
    /\ \A r \in TaskIds :
          tasks[r].ret = "ok" /\ tasks[r].type = "Query" =>
              LET runs == BoundRuns(r) IN
                  /\ Len(sent[r]) = Len(runs)
                  /\ \A i \in 1..Len(runs) :
                        IF runs[i].ok
                        THEN sent[r][i].type # "Error"
                        ELSE sent[r][i] = Response(tasks[r].sid, "Error", ErrExec, {})

\* request t has a batch in the manager: admitted, queued or run
Submitted(t) ==
    \/ \E i \in 1..Len(admitted) : admitted[i] = t
    \/ \E i \in 1..Len(queue) : \E j \in 1..Len(queue[i]) : queue[i][j].req = t
    \/ \E k \in 1..Len(executed) : executed[k].req = t

\* C15: a query that failed at the lookup of its session's database, or whose
\* text does not parse, has nothing in the manager: not admitted, not queued,
\* never run.  A batch enters the queue only by the step that ends the
\* handling of its query with success, and then holds every command of the
\* text, each with the continuation bound for its kind
FailedQuerySubmitsNothing ==
    /\ [](\A t \in TaskIds :
            (/\ tasks[t].type = "Query"
             /\ \/ tasks[t].ret = ErrNoActive
                \/ tasks[t].ret = ErrParse
                \/ Parse(tasks[t].data).err) => ~Submitted(t))
    /\ [][/\ admitted' # admitted =>
               \E t \in TaskIds :
                   /\ Stepped(t, "compile")
                   /\ tasks'[t].ret = "ok"
                   /\ tasks[t].ptr # Nil
                   /\ admitted' = Append(admitted, t)
                   /\ LET commands == Parse(tasks[t].data).commands
                          batch == queue'[Len(queue')]
                      IN  /\ queue' = Append(queue, batch)
                          /\ Len(batch) = Len(commands)
                          /\ \A i \in 1..Len(commands) :
                                /\ batch[i].kind = commands[i]
                                /\ batch[i].fn = BindFunction(commands[i])
          /\ (queue' # queue /\ admitted' = admitted) => queue' = Tail(queue)
         ]_vars

\* C15 witness: a query failed at parsing and was answered, while the query
\* of the other session was admitted
FailedQuerySubmitsNothingWitness ==
    \E t, u \in TaskIds :
        /\ tasks[t].type = "Query" /\ tasks[t].ret = ErrParse
        /\ sent[t] = <<Response(tasks[t].sid, "Error", ErrParse, {})>>
        /\ tasks[u].type = "Query" /\ tasks[u].ret = "ok" /\ Submitted(u)

\* command i of admitted request r is where the manager keeps what it has
\* not run: in the queue, and not before the manager's position
Queued(r, i) ==
    \E b \in 1..Len(queue) :
        /\ i <= Len(queue[b])
        /\ queue[b][i].req = r /\ queue[b][i].idx = i
        /\ b = 1 => i >= tmPos

Ran(r, i) == \E k \in 1..Len(executed) : executed[k].req = r /\ executed[k].idx = i

ReadOnlyTypes == {"KeepAlive", "GetMetadata", "ShowTransaction"}

\* C18: a keep-alive, get-metadata or show-transactions request is handled in
\* one step that admits nothing and changes neither the manager's state, nor a
\* binding, nor the registered databases; once handled it has sent exactly one
\* response, of the request's own type, to the requesting session
ReadOnlyRequestsServed ==
    /\ [](\A t \in TaskIds :
            tasks[t].type \in ReadOnlyTypes =>
                /\ ~Submitted(t)
                /\ IF Done(t)
                   THEN /\ Len(sent[t]) = 1
                        /\ sent[t][1].type = tasks[t].type
                        /\ sent[t][1].to = tasks[t].sid
                   ELSE sent[t] = <<>>)
    /\ [][\A t \in TaskIds :
            (tasks[t].type \in ReadOnlyTypes /\ tasks'[t] # tasks[t]) =>
                /\ Done(t)'
                /\ queue' = queue /\ tmPos' = tmPos
                /\ admitted' = admitted /\ executed' = executed
                /\ paired' = paired
                /\ databases' = databases
                /\ mainPc' = mainPc
         ]_vars

\* C18 witness: a read-only request has been answered while the manager is
\* in the middle of a batch
ReadOnlyRequestsServedWitness ==
    \E t \in TaskIds :
        /\ tasks[t].type \in ReadOnlyTypes
        /\ Done(t)
        /\ sent[t] # <<>>
        /\ queue # <<>>
        /\ tmPos = 2
        /\ mainPc = "serving"

\* C19: every response handed to server.Send for a request, by its handler
\* or by the continuation of one of its commands, is addressed to the session
\* of that request, and a queued continuation is bound to that session
ResponsesGoToRequester ==
    /\ \A t \in TaskIds :
          \A i \in 1..Len(sent[t]) : sent[t][i].to = tasks[t].sid
    /\ \A b \in 1..Len(queue) :
          \A j \in 1..Len(queue[b]) : queue[b][j].sid = tasks[queue[b][j].req].sid

\* C19 witness: both sessions have been answered, one of them by the
\* continuations of the two commands of its query
ResponsesGoToRequesterWitness ==
    \E t, u \in TaskIds :
        /\ t < u
        /\ tasks[t].sid # tasks[u].sid
        /\ tasks[t].type = "Query" /\ Len(sent[t]) = 2
        /\ Len(executed) = 2
        /\ Len(sent[u]) = 1

\* C20: a query's handler looks its session's database up once, and every
\* command of its batch is built on the handle that lookup returned: queued
\* and run commands carry it, whatever the session is paired to by then
BatchBoundAtDispatch ==
    /\ [](/\ \A b \in 1..Len(queue) :
               \A j \in 1..Len(queue[b]) :
                   /\ queue[b][j].db = tasks[queue[b][j].req].ptr
                   /\ queue[b][j].db # Nil
          /\ \A k \in 1..Len(executed) :
               executed[k].db = tasks[executed[k].req].ptr)
    /\ [][\A t \in TaskIds :
            tasks[t].type = "Query" =>
                /\ (Stepped(t, "getPair") /\ tasks'[t].pc = "compile") =>
                       /\ tasks[t].sid \in DOMAIN paired
                       /\ tasks'[t].ptr = paired[tasks[t].sid]
                /\ tasks[t].pc # "getPair" => tasks'[t].ptr = tasks[t].ptr
         ]_vars

\* C20 witness: a command was run on the handle its query was dispatched
\* with after the session had been paired to another database
BatchBoundAtDispatchWitness ==
    \E k \in 1..Len(executed) :
        LET s == tasks[executed[k].req].sid IN
            /\ Has(paired, s)
            /\ paired[s] # executed[k].db
            /\ executed[k].bound

\* the response the binder's table gives for a command of `kind` run for
\* session sid: the error on failure, the kind's own message on success
ExpectedResponse(kind, sid, ok) ==
    IF ~ok THEN Response(sid, "Error", ErrExec, {})
    ELSE CASE kind = "CreateTable" -> Response(sid, "Notification", "Table Created <name>", {})
           [] kind = "Insert" -> Response(sid, "Notification", "Data Inserted", {})
           [] kind = "UpdateTable" -> Response(sid, "Notification", "Data Updated", {})
           [] kind = "Delete" -> Response(sid, "Notification", "Data Deleted", {})
           [] kind = "Drop" -> Response(sid, "Notification", "Table Dropped", {})
           [] kind = "SelectTable" -> Response(sid, "Query", "rows", {})

\* C14: each command of a kind the binder has a case for has had exactly one
\* response sent to the issuing session when it has been run: the Error
\* response when it failed, and on success the notification of its kind
\* ("Table Created <name>" for create-table) or the Query response of a select
ContinuationResponses ==
    \A r \in TaskIds :
        (tasks[r].type = "Query" /\ tasks[r].ret = "ok") =>
            LET runs == BoundRuns(r) IN
                /\ Len(sent[r]) = Len(runs)
                /\ \A i \in 1..Len(runs) :
                      sent[r][i] = ExpectedResponse(runs[i].kind, tasks[r].sid,
                                                    runs[i].ok)

\* C16: when the manager runs a command of a kind with no case in the
\* binder's switch, invoking its continuation sends nothing and does not
\* fail: the process keeps serving and the manager has moved on to the next
\* command
UnboundKindIsNoOp ==
    [][(/\ executed' # executed
        /\ BindFunction(executed'[Len(executed')].kind) = "nil") =>
            /\ sent' = sent
            /\ mainPc' = "serving"
            /\ Pending' = Pending - 1
      ]_vars

----------------------------------------------------------------------------
(* The earlier iteration, main.go:36-176: one package-level `database` and  *)
(* `databaseName`, written and read by every request's goroutine            *)

LegacyTypes == {"KeepAlive", "NewDatabase", "LoadDatabase", "GetMetadata",
                "Query", "ShowTransaction"}

\* the case of the earlier handleRequest's switch, main.go:37-136
FirstStepLegacy(type) ==
    CASE type = "KeepAlive" -> "keepAlive"
      [] type = "NewDatabase" -> "legacySetName"
      [] type = "LoadDatabase" -> "legacySetName"
      [] type = "GetMetadata" -> "legacyGetMetadata"
      [] type = "Query" -> "legacyParse"
      [] type = "ShowTransaction" -> "showTransaction"

ReceiveLegacy(s, type, data) ==
    /\ mainPc = "serving"
    /\ Len(tasks) < MaxRequests
    /\ tasks' = Append(tasks, [NewTask(s, type, data) EXCEPT !.pc = FirstStepLegacy(type)])
    /\ sent' = Append(sent, <<>>)
    /\ UNCHANGED acceptorVars
    /\ UNCHANGED <<mainPc, files, databases, paired, nextHandle, closed, queue,
                   tmPos, executed, admitted, okUnpairs, dropHandled, database,
                   databaseName>>

\* lines 42 and 51: databaseName = request.Response.Data
LegacySetName(t) ==
    /\ At(t, "legacySetName")
    /\ databaseName' = tasks[t].data
    /\ tasks' = Goto(t, "legacyOpen")
    /\ UNCHANGED acceptorVars
    /\ UNCHANGED <<mainPc, files, databases, paired, nextHandle, sent, closed,
                   queue, tmPos, executed, admitted, okUnpairs, dropHandled,
                   database>>

\* lines 43-47 and 52-56: database, err = data.NewDatabase(databaseName) or
\* data.LoadDatabase(databaseName); the result is assigned also when it is
\* the nil of a failure, and the error is only printed
LegacyOpen(t) ==
    /\ At(t, "legacyOpen")
    /\ \/ /\ nextHandle < MaxHandles
          /\ tasks[t].type = "LoadDatabase" => databaseName \in files
          /\ nextHandle' = nextHandle + 1
          /\ database' = nextHandle + 1
          /\ files' = files \cup {databaseName}
          /\ tasks' = Return(t, "ok")
       \/ /\ database' = Nil
          /\ tasks' = Return(t, ErrStorage)
          /\ UNCHANGED <<nextHandle, files>>
    /\ UNCHANGED acceptorVars
    /\ UNCHANGED <<mainPc, databases, paired, sent, closed, queue, tmPos,
                   executed, admitted, okUnpairs, dropHandled, databaseName>>

\* lines 66-76: database.AllTables() panics on a nil database, may fail
\* (printed, nothing sent), or the metadata of databaseName is sent
LegacyGetMetadata(t) ==
    /\ At(t, "legacyGetMetadata")
    /\ IF database = Nil
       THEN /\ mainPc' = "exited"
            /\ UNCHANGED <<tasks, sent>>
       ELSE /\ \E ok \in BOOLEAN :
                 IF ok
                 THEN /\ sent' = Send(t, Response(tasks[t].sid, "GetMetadata",
                                                  databaseName, {databaseName}))
                      /\ tasks' = Return(t, "ok")
                 ELSE /\ tasks' = Return(t, ErrStorage)
                      /\ UNCHANGED sent
            /\ UNCHANGED mainPc
    /\ UNCHANGED acceptorVars
    /\ UNCHANGED <<files, databases, paired, nextHandle, closed, queue, tmPos,
                   executed, admitted, okUnpairs, dropHandled, database,
                   databaseName>>

\* lines 79-84: the query is parsed before anything else
LegacyParse(t) ==
    /\ At(t, "legacyParse")
    /\ IF Parse(tasks[t].data).err
       THEN /\ sent' = Send(t, Response(tasks[t].sid, "Error", ErrParse, {}))
            /\ tasks' = Return(t, ErrParse)
       ELSE /\ tasks' = Goto(t, "legacyBind")
            /\ UNCHANGED sent
    /\ UNCHANGED acceptorVars
    /\ UNCHANGED <<mainPc, files, databases, paired, nextHandle, closed, queue,
                   tmPos, executed, admitted, okUnpairs, dropHandled, database,
                   databaseName>>

\* lines 88-124, one turn of the loop: the command is bound and built by
\* database.CommandFactory on the package-level database as it is now
LegacyBind(t) ==
    /\ At(t, "legacyBind")
    /\ LET kinds == Parse(tasks[t].data).commands
           i == Len(tasks[t].batch) + 1
       IN  tasks' = [tasks EXCEPT
                       ![t].batch = Append(@, [kind |-> kinds[i], db |-> database,
                                               sid |-> tasks[t].sid, req |-> t, idx |-> i,
                                               fn |-> BindFunctionLegacy(kinds[i])]),
                       ![t].pc = IF i = Len(kinds) THEN "legacyAdd" ELSE "legacyBind"]
    /\ UNCHANGED acceptorVars
    /\ UNCHANGED <<mainPc, files, databases, paired, nextHandle, sent, closed,
                   queue, tmPos, executed, admitted, okUnpairs, dropHandled,
                   database, databaseName>>

\* line 126: transaction.AddCommands(commandsArray)
LegacyAdd(t) ==
    /\ At(t, "legacyAdd")
    /\ queue' = Append(queue, tasks[t].batch)
    /\ admitted' = Append(admitted, t)
    /\ tasks' = Return(t, "ok")
    /\ UNCHANGED acceptorVars
    /\ UNCHANGED <<mainPc, files, databases, paired, nextHandle, sent, closed,
                   tmPos, executed, okUnpairs, dropHandled, database,
                   databaseName>>

InitLegacy ==
    /\ mainPc = "serving"
    /\ files = InitialFiles
    /\ databases = EmptyMap
    /\ paired = EmptyMap
    /\ nextHandle = 0
    /\ tasks = <<>>
    /\ sent = <<>>
    /\ closed = {}
    /\ queue = <<>>
    /\ tmPos = 1
    /\ executed = <<>>
    /\ admitted = <<>>
    /\ okUnpairs = [s \in Sessions |-> 0]
    /\ dropHandled = {}
    /\ database = Nil
    /\ databaseName = ""
    /\ acceptorPc = "check"
    /\ joined = Cardinality(Sessions)
    /\ conn = Nil

StepLegacy(t) ==
    \/ KeepAlive(t)
    \/ LegacySetName(t)
    \/ LegacyOpen(t)
    \/ LegacyGetMetadata(t)
    \/ LegacyParse(t)
    \/ LegacyBind(t)
    \/ LegacyAdd(t)
    \/ ShowTransaction(t)

NextLegacy ==
    \/ \E s \in Sessions, type \in LegacyTypes : \E data \in RequestData(type) :
         ReceiveLegacy(s, type, data)
    \/ \E t \in 1..MaxRequests : StepLegacy(t)
    \/ TMExecute

SpecLegacy == InitLegacy /\ [][NextLegacy]_vars

\* session s has had a new-database or load-database request handled with
\* success
HasChosenDatabase(s) ==
    \E u \in TaskIds :
        /\ tasks[u].sid = s
        /\ tasks[u].type \in {"NewDatabase", "LoadDatabase"}
        /\ tasks[u].ret = "ok"

\* C1: handling a new-database or load-database request of one session
\* leaves the database that another session, which has chosen one, has its
\* next query compiled against as it was: that session's binding in the
\* DBManager iteration, the package-level database in the earlier one
OtherSessionsKeepDatabase ==
    [][\A t \in TaskIds :
          (tasks[t].type \in {"NewDatabase", "LoadDatabase"} /\ tasks'[t] # tasks[t]) =>
              \A s \in Sessions \ {tasks[t].sid} :
                  HasChosenDatabase(s) =>
                      /\ BoundTo(s)' = BoundTo(s)
                      /\ database' = database
      ]_vars

----------------------------------------------------------------------------
(* Connection Acceptor: the loop that ends main, main.go:460-472 *)

\* settings.MaxSessions, and the connections clients attempt in a run
MaxSessions == 2
MaxConnections == 3

\* everything the accept loop leaves alone
requestVars == <<files, databases, paired, nextHandle, tasks, sent, closed,
                 queue, tmPos, executed, admitted, okUnpairs, dropHandled,
                 database, databaseName>>

\* the sessions the transport holds: joined, and their connection still open
LiveSessions == {s \in 1..joined : s \notin closed}

\* server.GetSessionsAmount()
GetSessionsAmount == Cardinality(LiveSessions)

\* mutant: the test of the ceiling is lost
belowCeilingAlways == TRUE

\* line 461: settings.MaxSessions > server.GetSessionsAmount()
belowCeiling == MaxSessions > GetSessionsAmount

\* line 461, the test passes and the loop goes on to listener.Accept(); when it
\* fails the loop comes back to the test with nothing changed
AcceptorCheck ==
    /\ mainPc = "serving"
    /\ acceptorPc = "check"
    /\ belowCeiling
    /\ acceptorPc' = "accept"
    /\ UNCHANGED <<mainPc, joined, conn>>
    /\ UNCHANGED requestVars

\* line 462: listener.Accept() returns a client's connection, or (nil, err):
\* the listener of net.Listen returns a nil Conn with every error
AcceptReturn ==
    /\ mainPc = "serving"
    /\ acceptorPc = "accept"
    /\ \/ /\ joined < MaxConnections
          /\ conn' = joined + 1
          /\ acceptorPc' = "join"
       \/ /\ conn' = Nil
          /\ acceptorPc' = "failed"
    /\ UNCHANGED <<mainPc, joined>>
    /\ UNCHANGED requestVars

\* lines 463-468: conn.Close() on the value Accept returned with the error,
\* then the sleep and `continue`; a method call on a nil Conn panics
AcceptFailed ==
    /\ mainPc = "serving"
    /\ acceptorPc = "failed"
    /\ IF conn = Nil
       THEN mainPc' = "exited" /\ UNCHANGED acceptorPc
       ELSE acceptorPc' = "check" /\ UNCHANGED mainPc
    /\ UNCHANGED <<joined, conn>>
    /\ UNCHANGED requestVars

\* line 470: server.Join(conn) registers the session, whose id is the next one
Join ==
    /\ mainPc = "serving"
    /\ acceptorPc = "join"
    /\ joined' = joined + 1
    /\ acceptorPc' = "check"
    /\ UNCHANGED <<mainPc, conn>>
    /\ UNCHANGED requestVars

\* the server once main has reached the accept loop, no client connected yet
InitAcceptor ==
    /\ mainPc = "serving"
    /\ files = InitialFiles
    /\ databases = LoadedPrefix(FileList, Len(FileList))
    /\ paired = EmptyMap
    /\ nextHandle = Len(FileList)
    /\ tasks = <<>>
    /\ sent = <<>>
    /\ closed = {}
    /\ queue = <<>>
    /\ tmPos = 1
    /\ executed = <<>>
    /\ admitted = <<>>
    /\ okUnpairs = [s \in 1..MaxConnections |-> 0]
    /\ dropHandled = {}
    /\ database = Nil
    /\ databaseName = ""
    /\ acceptorPc = "check"
    /\ joined = 0
    /\ conn = Nil

\* the accept loop, the sessions it joined sending keep-alives and closing
NextAcceptor ==
    \/ AcceptorCheck
    \/ AcceptReturn
    \/ AcceptFailed
    \/ Join
    \/ \E s \in LiveSessions : Receive(s, "KeepAlive", "")
    \/ \E s \in LiveSessions : ConnectionClosed(s)
    \/ \E t \in 1..MaxRequests : KeepAlive(t) \/ UnpairLoad(t)

SpecAcceptor == InitAcceptor /\ [][NextAcceptor]_vars

\* C12: the live sessions never exceed the ceiling: Accept is called, and a
\* connection joined, only while the count is below it; with the count at the
\* ceiling no connection is taken; and whenever the count is below the ceiling
\* again the loop can go on to accept
SessionCeiling ==
    /\ [](/\ GetSessionsAmount <= MaxSessions
          /\ acceptorPc \in {"accept", "join"} => GetSessionsAmount < MaxSessions)
    /\ [][/\ (acceptorPc = "check" /\ acceptorPc' = "accept") =>
                 GetSessionsAmount < MaxSessions
          /\ joined' # joined =>
                 /\ GetSessionsAmount < MaxSessions
                 /\ joined' = joined + 1
                 /\ GetSessionsAmount' <= MaxSessions
          /\ GetSessionsAmount = MaxSessions =>
                 /\ joined' = joined
                 /\ conn' = conn
                 /\ acceptorPc' = acceptorPc
          /\ (/\ GetSessionsAmount' < MaxSessions
              /\ acceptorPc' = "check"
              /\ mainPc' = "serving") => (ENABLED AcceptorCheck)'
         ]_vars

\* C12 witness: the ceiling was reached, a session exited, and the connection
\* accepted after that brought the count to the ceiling again
SessionCeilingWitness ==
    /\ joined = MaxSessions + 1
    /\ GetSessionsAmount = MaxSessions
    /\ acceptorPc = "check"

\* C13: an error of Accept does not end the process: the connection is
\* closed, and after the delay the loop is back at its test, from where a
\* later connection is accepted and joined
AcceptErrorRetried ==
    [][acceptorPc = "failed" =>
          /\ mainPc' = "serving"
          /\ acceptorPc' \in {"failed", "check"}
      ]_vars

====
